---- MODULE Spec2Model ----
(***************************************************************************)
(* A model of ifacemaker's type core (internal/generator/type.go: the      *)
(* Type model, ParseType and Type.String) and of the generation run in     *)
(* cmd/ifacemaker/main.go.                                                 *)
(*                                                                         *)
(* Go values are modelled as records.  A *Type is either Nil or a record   *)
(* with every field of the Go struct; a syntax-tree node is a record whose *)
(* field "node" is the node's dynamic Go type (the thing ParseType's type  *)
(* switch dispatches on).  A panic is the record [panic |-> message].      *)
(* Strings are TLA+ strings and are built with \o exactly where the code   *)
(* concatenates or formats.                                                *)
(***************************************************************************)
EXTENDS Integers, Sequences, FiniteSets, TLC

VARIABLES
    node,               \* ParseType's argument node
    typesMap,           \* ParseType's argument typesMap (set of local type names)
    sourcePackageName,  \* ParseType's argument sourcePackageName
    t,                  \* the *Type in hand (ParseType's result or a literal)
    origin,             \* where t comes from: "ParseType" or "literal"
    out,                \* the result of t.String()
    pc,                 \* position of the parse/render caller
    fpPkg,              \* formatPackage's argument pkg
    fpTypeName,         \* formatPackage's argument typeName
    fpOut,              \* formatPackage's result
    mainPc,             \* position of main
    args,               \* outcome of flags.ParseArgs: "ok", "help", "bad"
    entries,            \* what os.ReadDir returns for the module directory
    files,              \* findSourceFiles' result
    executed,           \* the steps main has executed, in order
    exitCode,           \* the process's exit status once it has terminated
    outputFile          \* whether the output file has been written

vars == <<node, typesMap, sourcePackageName, t, origin, out, pc,
          fpPkg, fpTypeName, fpOut,
          mainPc, args, entries, files, executed, exitCode, outputFile>>

parseVars  == <<node, typesMap, sourcePackageName, t, origin, out, pc>>
formatVars == <<fpPkg, fpTypeName, fpOut>>
mainVars   == <<mainPc, args, entries, files, executed, exitCode, outputFile>>

----------------------------------------------------------------------------
(* Bounds of the explored inputs *)

MaxDepth == 2       \* nesting depth of the type expressions fed to ParseType
MaxFields == 2      \* fields in a function type's parameter / result list
MaxArrayLen == 1    \* lengths N of fixed-length array types [N]T
MaxMethods == 1     \* methods declared by an interface type

----------------------------------------------------------------------------
(* The Type model: type.go lines 9-37 *)

TypeKindSelector  == "selector"
TypeKindStar      == "star"
TypeKindIdent     == "ident"
TypeKindEllipsis  == "ellipsis"
TypeKindArray     == "array"
TypeKindFunc      == "func"
TypeKindMap       == "map"
TypeKindInterface == "interface"
TypeKindChan      == "chan"

TypeKinds == {TypeKindSelector, TypeKindStar, TypeKindIdent, TypeKindEllipsis,
              TypeKindArray, TypeKindFunc, TypeKindMap, TypeKindInterface,
              TypeKindChan}

\* go/ast's ChanDir values; 0 is the zero value of the field
SEND == 1
RECV == 2

ChanDirs == {SEND, RECV, SEND + RECV}

\* a nil *Type
Nil == [nil |-> TRUE]

IsNil(p) == DOMAIN p = {"nil"}

\* the zero value of struct Type: what &Type{...} leaves in the fields it
\* does not name
ZeroType ==
    [Child |-> Nil, Package |-> "", Name |-> "", Kind |-> "",
     Results |-> <<>>, Params |-> <<>>,
     mapKeyType |-> Nil, mapValType |-> Nil, chanDir |-> 0]

\* a panic carrying a message
Panic(msg) == [panic |-> msg]

IsPanic(r) == DOMAIN r = {"panic"}

----------------------------------------------------------------------------
(* Syntax-tree nodes (go/ast), as ParseType reads them *)

NilNode == [node |-> "nil"]

Ident(name) == [node |-> "Ident", Name |-> name]

SelectorExpr(x, sel) == [node |-> "SelectorExpr", X |-> x, Sel |-> Ident(sel)]

Ellipsis(elt) == [node |-> "Ellipsis", Elt |-> elt]

StarExpr(x) == [node |-> "StarExpr", X |-> x]

Field(names, type) == [Names |-> names, Type |-> type]

FieldList(list) == [node |-> "FieldList", List |-> list]

FuncType(params, results) ==
    [node |-> "FuncType", Params |-> params, Results |-> results]

BasicLit(n) == [node |-> "BasicLit", Value |-> n]

ArrayType(len, elt) == [node |-> "ArrayType", Len |-> len, Elt |-> elt]

MapType(key, value) == [node |-> "MapType", Key |-> key, Value |-> value]

InterfaceType(numMethods) ==
    [node |-> "InterfaceType", NumMethods |-> numMethods]

ChanType(dir, value) == [node |-> "ChanType", Dir |-> dir, Value |-> value]

StructType == [node |-> "StructType"]

\* what fmt's %T prints for a node
GoTypeName(n) == IF n.node = "nil" THEN "<nil>" ELSE "*ast." \o n.node

----------------------------------------------------------------------------
(* ParseType: type.go lines 93-161 *)

\* the name an identifier node carries
identName(n) == IF n.node = "Ident" THEN n.Name ELSE ""

\* formatPackage with the lookup's test inverted
formatPackageInverted(pkg, typeName, tm, spn) ==
    IF pkg # "" THEN ""
    ELSE IF typeName \notin tm THEN spn
    ELSE pkg

\* the closure formatPackage of ParseType; typesMap and sourcePackageName
\* are the variables it captures
formatPackage(pkg, typeName, tm, spn) ==
    IF pkg # "" THEN ""
    ELSE IF typeName \in tm THEN spn
    ELSE pkg

\* the selector case with Name and Package exchanged
ParseSelectorExprSwapped(paramType) ==
    [ZeroType EXCEPT !.Name = identName(paramType.X),
                     !.Package = paramType.Sel.Name,
                     !.Kind = TypeKindSelector]

\* case *ast.SelectorExpr
ParseSelectorExpr(paramType) ==
    [ZeroType EXCEPT !.Name = paramType.Sel.Name,
                     !.Package = identName(paramType.X),
                     !.Kind = TypeKindSelector]

\* case *ast.Ident
ParseIdent(paramType, tm, spn) ==
    [ZeroType EXCEPT !.Name = identName(paramType),
                     !.Package = formatPackage("", identName(paramType), tm, spn),
                     !.Kind = TypeKindIdent]

\* case *ast.Ellipsis, given the parsed paramType.Elt
ParseEllipsis(child) ==
    [ZeroType EXCEPT !.Child = child, !.Kind = TypeKindEllipsis]

\* case *ast.StarExpr, given the parsed paramType.X
ParseStarExpr(child) ==
    [ZeroType EXCEPT !.Child = child, !.Kind = TypeKindStar]

\* case *ast.FuncType, given the parsed parameter and result lists
ParseFuncType(params, results) ==
    [ZeroType EXCEPT !.Params = params, !.Results = results,
                     !.Kind = TypeKindFunc]

\* the array case keeping a trace of the length expression
ParseArrayTypeKeepLen(paramType, child) ==
    [ZeroType EXCEPT !.Child = child, !.Kind = TypeKindArray,
                     !.Name = IF paramType.Len.node = "nil" THEN "" ELSE "len"]

\* case *ast.ArrayType, given the parsed paramType.Elt
ParseArrayType(paramType, child) ==
    [ZeroType EXCEPT !.Child = child, !.Kind = TypeKindArray]

\* the map case without the value type
ParseMapTypeNoValue(key, value) ==
    [ZeroType EXCEPT !.Kind = TypeKindMap, !.mapKeyType = key]

\* case *ast.MapType, given the parsed paramType.Key and paramType.Value
ParseMapType(key, value) ==
    [ZeroType EXCEPT !.Kind = TypeKindMap,
                     !.mapKeyType = key, !.mapValType = value]

\* case *ast.InterfaceType
ParseInterfaceType(paramType) ==
    [ZeroType EXCEPT !.Kind = TypeKindInterface]

\* case *ast.ChanType, given the parsed paramType.Value
ParseChanType(paramType, child) ==
    [ZeroType EXCEPT !.Kind = TypeKindChan, !.Child = child,
                     !.chanDir = paramType.Dir]

\* the default case
ParseDefault(n) == Panic("unhandled type " \o GoTypeName(n))

\* one slot per declared name of a field list: "a, b T" gives two slots of
\* type T, an unnamed field gives one; a nil list gives none
RECURSIVE extractList(_)
extractList(fl) ==
    IF fl.node = "nil" \/ fl.List = <<>> THEN <<>>
    ELSE LET f == Head(fl.List)
             slots == IF f.Names = <<>>
                         THEN <<[Name |-> "", Type |-> f.Type]>>
                         ELSE [i \in 1..Len(f.Names) |->
                                  [Name |-> f.Names[i], Type |-> f.Type]]
         IN  slots \o extractList(FieldList(Tail(fl.List)))

\* the panic raised while a parameter list was parsed (the first one), or Nil
PanicOf(params) ==
    LET bad == {i \in 1..Len(params) : IsPanic(params[i].Type)}
    IN  IF bad = {} THEN Nil
        ELSE params[CHOOSE i \in bad : \A j \in bad : i <= j].Type

RECURSIVE ParseType(_, _, _)

\* one Param per slot, its type parsed
ParseMany(list, tm, spn) ==
    [i \in 1..Len(list) |->
        [Name |-> list[i].Name, Type |-> ParseType(list[i].Type, tm, spn)]]

ParseType(n, tm, spn) ==
    CASE n.node = "SelectorExpr" -> ParseSelectorExpr(n)
      [] n.node = "Ident" -> ParseIdent(n, tm, spn)
      [] n.node = "Ellipsis" ->
            LET c == ParseType(n.Elt, tm, spn)
            IN  IF IsPanic(c) THEN c ELSE ParseEllipsis(c)
      [] n.node = "StarExpr" ->
            LET c == ParseType(n.X, tm, spn)
            IN  IF IsPanic(c) THEN c ELSE ParseStarExpr(c)
      [] n.node = "FuncType" ->
            LET ps == ParseMany(extractList(n.Params), tm, spn)
                rs == ParseMany(extractList(n.Results), tm, spn)
            IN  IF ~IsNil(PanicOf(ps)) THEN PanicOf(ps)
                ELSE IF ~IsNil(PanicOf(rs)) THEN PanicOf(rs)
                ELSE ParseFuncType(ps, rs)
      [] n.node = "ArrayType" ->
            LET c == ParseType(n.Elt, tm, spn)
            IN  IF IsPanic(c) THEN c ELSE ParseArrayType(n, c)
      [] n.node = "MapType" ->
            LET k == ParseType(n.Key, tm, spn)
                v == ParseType(n.Value, tm, spn)
            IN  IF IsPanic(k) THEN k
                ELSE IF IsPanic(v) THEN v
                ELSE ParseMapType(k, v)
      [] n.node = "InterfaceType" -> ParseInterfaceType(n)
      [] n.node = "ChanType" ->
            LET c == ParseType(n.Value, tm, spn)
            IN  IF IsPanic(c) THEN c ELSE ParseChanType(n, c)
      [] OTHER -> ParseDefault(n)

----------------------------------------------------------------------------
(* Type.String: type.go lines 39-91 *)

\* a rendering that returned s
Ok(s) == [panic |-> FALSE, s |-> s]

\* a rendering that read a field through a nil *Type
NilDeref == [panic |-> TRUE, s |-> "nil pointer dereference"]

\* fmt.Sprintf(prefix + "%s", child), child being the rendered child
Sprintf(prefix, child) ==
    IF child.panic THEN child ELSE Ok(prefix \o child.s)

\* strings.Join
RECURSIVE Join(_, _)
Join(elems, sep) ==
    IF elems = <<>> THEN ""
    ELSE IF Len(elems) = 1 THEN elems[1]
    ELSE elems[1] \o sep \o Join(Tail(elems), sep)

\* case TypeKindStar
StringStar(child) == Sprintf("*", child)

\* case TypeKindIdent
StringIdent(ty) ==
    IF ty.Package = "" THEN Ok(ty.Name)
    ELSE Ok(ty.Package \o "." \o ty.Name)

\* case TypeKindEllipsis
StringEllipsis(child) == Sprintf("...", child)

\* case TypeKindArray
StringArray(child) == Sprintf("[]", child)

\* case TypeKindMap
StringMap(key, value) ==
    IF key.panic THEN key
    ELSE IF value.panic THEN value
    ELSE Ok("map[" \o key.s \o "]" \o value.s)

\* case TypeKindSelector
StringSelector(ty) == Ok(ty.Package \o "." \o ty.Name)

\* case TypeKindInterface
StringInterface == Ok("interface{}")

\* the function case parenthesising any non-empty result list
StringFuncParenAny(params, results) ==
    IF \E i \in 1..Len(params) : params[i].panic THEN NilDeref
    ELSE IF \E i \in 1..Len(results) : results[i].panic THEN NilDeref
    ELSE LET ps == [i \in 1..Len(params) |-> params[i].s]
             rs == [i \in 1..Len(results) |-> results[i].s]
         IN  IF Len(rs) > 0
                THEN Ok("func(" \o Join(ps, ", ") \o ") " \o
                        "(" \o Join(rs, ", ") \o ")")
                ELSE Ok("func(" \o Join(ps, ", ") \o ") " \o Join(rs, ", "))

\* case TypeKindFunc, given the rendered params and results
StringFunc(params, results) ==
    IF \E i \in 1..Len(params) : params[i].panic THEN NilDeref
    ELSE IF \E i \in 1..Len(results) : results[i].panic THEN NilDeref
    ELSE LET ps == [i \in 1..Len(params) |-> params[i].s]
             rs == [i \in 1..Len(results) |-> results[i].s]
         IN  IF Len(rs) > 1
                THEN Ok("func(" \o Join(ps, ", ") \o ") " \o
                        "(" \o Join(rs, ", ") \o ")")
                ELSE Ok("func(" \o Join(ps, ", ") \o ") " \o Join(rs, ", "))

\* the channel case with the two directions exchanged
StringChanSwapped(ty, child) ==
    IF ty.chanDir = SEND THEN Sprintf("<-chan ", child)
    ELSE IF ty.chanDir = RECV THEN Sprintf("chan<- ", child)
    ELSE Sprintf("chan ", child)

\* case TypeKindChan
StringChan(ty, child) ==
    IF ty.chanDir = RECV THEN Sprintf("<-chan ", child)
    ELSE IF ty.chanDir = SEND THEN Sprintf("chan<- ", child)
    ELSE Sprintf("chan ", child)

\* the fallback rendering the name
StringDefaultName(ty) == Ok(ty.Name)

\* no case matched: the final return
StringDefault(ty) == Ok("")

RECURSIVE String(_)

\* Param.String: a parameter renders as its type, its name dropped
ParamString(p) == String(p.Type)

String(ty) ==
    IF IsNil(ty) THEN NilDeref
    ELSE CASE ty.Kind = TypeKindStar -> StringStar(String(ty.Child))
           [] ty.Kind = TypeKindIdent -> StringIdent(ty)
           [] ty.Kind = TypeKindEllipsis -> StringEllipsis(String(ty.Child))
           [] ty.Kind = TypeKindArray -> StringArray(String(ty.Child))
           [] ty.Kind = TypeKindMap ->
                 StringMap(String(ty.mapKeyType), String(ty.mapValType))
           [] ty.Kind = TypeKindSelector -> StringSelector(ty)
           [] ty.Kind = TypeKindInterface -> StringInterface
           [] ty.Kind = TypeKindFunc ->
                 StringFunc([i \in 1..Len(ty.Params) |-> ParamString(ty.Params[i])],
                            [i \in 1..Len(ty.Results) |-> ParamString(ty.Results[i])])
           [] ty.Kind = TypeKindChan -> StringChan(ty, String(ty.Child))
           [] OTHER -> StringDefault(ty)

----------------------------------------------------------------------------
(* The inputs explored *)

\* identifiers used as type names
TypeNames == {"Foo", "Bar"}

\* destination package names
PackageNames == {"out", "api"}

\* type expressions without a sub-expression: bare identifiers, qualified
\* references (one whose selected name, one whose qualifier is also a type
\* name), interface types declaring 0..MaxMethods methods, a node outside
\* ParseType's switch, and a missing (nil) expression
Leaves ==
    {Ident(n) : n \in TypeNames}
    \union {SelectorExpr(Ident("pkg"), "Foo"), SelectorExpr(Ident("Foo"), "Bar")}
    \union {InterfaceType(m) : m \in 0..MaxMethods}
    \union {StructType, NilNode}

\* the expressions function types are built around: a bare identifier and a
\* node outside ParseType's switch
FuncLeaves == {Ident("Foo"), StructType}

\* the i-th field type of a function type built around x
FieldTypeAt(i, x) ==
    CASE i % 3 = 1 -> x
      [] i % 3 = 2 -> Ident("Bar")
      [] OTHER -> SelectorExpr(Ident("pkg"), "Foo")

\* func(a, b x, c Bar, ...) (x, Bar, ...): np parameter fields, the
\* first declaring two names, and nr unnamed results (no result list at all
\* when nr = 0)
FuncAround(np, nr, x) ==
    FuncType(
        FieldList([i \in 1..np |->
            Field(IF i = 1 THEN <<"a", "b">> ELSE <<"c">>, FieldTypeAt(i, x))]),
        IF nr = 0 THEN NilNode
        ELSE FieldList([i \in 1..nr |-> Field(<<>>, FieldTypeAt(i, x))]))

\* every expression with one more level of nesting around an x of prev
Wrap(prev) ==
    {StarExpr(x) : x \in prev}
    \union {Ellipsis(x) : x \in prev}
    \union {ArrayType(NilNode, x) : x \in prev}
    \union {ArrayType(BasicLit(n), x) : n \in 1..MaxArrayLen, x \in prev}
    \union {ChanType(d, x) : d \in ChanDirs, x \in prev}
    \union {MapType(x, Ident("Bar")) : x \in prev}
    \union {MapType(Ident("Foo"), x) : x \in prev}

\* type expressions nested at most d deep; function types are built around
\* FuncLeaves and nest like any other expression
RECURSIVE Nodes(_)
Nodes(d) ==
    IF d = 0 THEN Leaves
    ELSE LET prev == Nodes(d - 1)
         IN  prev \union Wrap(prev)
                  \union (IF d = 1
                             THEN {FuncAround(np, nr, x) :
                                      np \in 0..MaxFields, nr \in 0..MaxFields,
                                      x \in FuncLeaves}
                             ELSE {})

\* a Type literal of kind k over the given child
Literal(k, child) ==
    [ZeroType EXCEPT !.Kind = k, !.Child = child,
                     !.mapKeyType = child, !.mapValType = child]

IdentType(pkg, name) ==
    [ZeroType EXCEPT !.Kind = TypeKindIdent, !.Package = pkg, !.Name = name]

\* Type values a caller can build without ParseType: every recognised kind
\* and some unrecognised ones (the zero Kind among them), over a nil and a
\* non-nil child, with the other fields set or not
LiteralTypes ==
    LET children == {Nil, IdentType("", "Bar")}
        base == {Literal(k, c) : k \in TypeKinds \union {"", "struct", "Ident"},
                                 c \in children}
    IN  base
        \union {[b EXCEPT !.Name = "Foo", !.Package = "out", !.chanDir = RECV,
                          !.Params = <<[Name |-> "a", Type |-> IdentType("", "Bar")]>>,
                          !.Results = <<[Name |-> "", Type |-> Nil]>>] : b \in base}

----------------------------------------------------------------------------
(* The callers of ParseType and Type.String *)

FormatIdle == fpPkg = "" /\ fpTypeName = "" /\ fpOut = ""

MainIdle ==
    /\ mainPc = "idle" /\ args = "ok" /\ entries = <<>> /\ files = <<>>
    /\ executed = <<>> /\ exitCode = -1 /\ outputFile = FALSE

\* a caller holds either a node to parse or a Type literal
InitParse ==
    /\ typesMap \in SUBSET TypeNames
    /\ sourcePackageName \in PackageNames
    /\ out = Ok("")
    /\ \/ /\ node \in Nodes(MaxDepth)
          /\ t = Nil /\ origin = "ParseType" /\ pc = "input"
       \/ /\ node = NilNode
          /\ t \in LiteralTypes /\ origin = "literal" /\ pc = "built"
    /\ FormatIdle
    /\ MainIdle

\* t := ParseType(node, typesMap, sourcePackageName)
CallParseType ==
    /\ pc = "input"
    /\ t' = ParseType(node, typesMap, sourcePackageName)
    /\ pc' = IF IsPanic(t') THEN "panicked" ELSE "built"
    /\ UNCHANGED <<node, typesMap, sourcePackageName, origin, out>>
    /\ UNCHANGED formatVars /\ UNCHANGED mainVars

\* out := t.String()
CallString ==
    /\ pc = "built"
    /\ out' = String(t)
    /\ pc' = "rendered"
    /\ UNCHANGED <<node, typesMap, sourcePackageName, origin, t>>
    /\ UNCHANGED formatVars /\ UNCHANGED mainVars

NextParse == CallParseType \/ CallString

Spec == InitParse /\ [][NextParse]_vars

----------------------------------------------------------------------------
(* Vocabulary of the properties *)

\* every Type of the tree rooted at ty
RECURSIVE SubTypes(_)
SubTypes(ty) ==
    IF IsNil(ty) THEN {}
    ELSE {ty} \union SubTypes(ty.Child)
              \union SubTypes(ty.mapKeyType) \union SubTypes(ty.mapValType)
              \union UNION {SubTypes(ty.Params[i].Type) : i \in 1..Len(ty.Params)}
              \union UNION {SubTypes(ty.Results[i].Type) : i \in 1..Len(ty.Results)}

\* every node of the expression n that ParseType is applied to
RECURSIVE SubNodes(_)
SubNodes(n) ==
    {n} \union
    CASE n.node \in {"Ellipsis", "ArrayType"} -> SubNodes(n.Elt)
      [] n.node = "StarExpr" -> SubNodes(n.X)
      [] n.node = "ChanType" -> SubNodes(n.Value)
      [] n.node = "MapType" -> SubNodes(n.Key) \union SubNodes(n.Value)
      [] n.node = "FuncType" ->
            UNION {SubNodes(f.Type) :
                      f \in {n.Params.List[i] : i \in 1..Len(n.Params.List)}
                            \union (IF n.Results.node = "nil" THEN {}
                                    ELSE {n.Results.List[i] :
                                             i \in 1..Len(n.Results.List)})}
      [] OTHER -> {}

\* ParseType has returned a Type for node
Returned == origin = "ParseType" /\ pc \in {"built", "rendered"}

\* ParseType has returned or panicked
Called == origin = "ParseType" /\ pc \in {"built", "rendered", "panicked"}

\* C1: every bare identifier ParseType meets, at any nesting depth, becomes
\* an Identifier whose Package is the destination package if its name is a
\* local type and is empty otherwise; a local Foo renders as out.Foo, a
\* non-local Bar as Bar.
C1_Qualification ==
    /\ Returned =>
          {<<s.Name, s.Package>> : s \in {x \in SubTypes(t) : x.Kind = TypeKindIdent}}
          = {<<n.Name, IF n.Name \in typesMap THEN sourcePackageName ELSE "">> :
                n \in {x \in SubNodes(node) : x.node = "Ident"}}
    /\ Returned /\ node.node = "Ident" =>
          /\ t.Kind = TypeKindIdent /\ t.Name = node.Name
          /\ t.Package = IF node.Name \in typesMap THEN sourcePackageName ELSE ""
    /\ pc = "rendered" /\ origin = "ParseType" /\ node.node = "Ident" =>
          out = Ok(IF node.Name \in typesMap
                      THEN sourcePackageName \o "." \o node.Name
                      ELSE node.Name)

C1_Witness ==
    /\ pc = "rendered" /\ origin = "ParseType"
    /\ node = StarExpr(MapType(Ident("Foo"), Ident("Bar")))
    /\ typesMap = {"Foo"} /\ sourcePackageName = "out"
    /\ out = Ok("*map[out.Foo]Bar")

\* the result segment of a rendered function type
ResultSegment(rs) ==
    CASE Len(rs) = 0 -> ""
      [] Len(rs) = 1 -> rs[1]
      [] OTHER -> "(" \o Join(rs, ", ") \o ")"

\* C2: a Function type renders as "func(" + the parameters joined by ", "
\* in order + ") " + the result segment: empty for no result, the bare
\* result for one, the results joined by ", " in parentheses for two or more.
C2_FunctionRendering ==
    pc = "rendered" /\ t.Kind = TypeKindFunc /\ ~out.panic =>
        LET ps == [i \in 1..Len(t.Params) |-> String(t.Params[i].Type).s]
            rs == [i \in 1..Len(t.Results) |-> String(t.Results[i].Type).s]
        IN  out.s = "func(" \o Join(ps, ", ") \o ") " \o ResultSegment(rs)

C2_Witness ==
    /\ pc = "rendered" /\ origin = "ParseType"
    /\ Len(t.Params) = 3 /\ Len(t.Results) = 2
    /\ out = Ok("func(Foo, Foo, Bar) (Foo, Bar)")

\* the node is outside ParseType's supported grammar: an interface type that
\* declares methods, or a node shape ParseType has no mapping for
Unsupported(n) ==
    \/ n.node = "InterfaceType" /\ n.NumMethods > 0
    \/ n.node \notin {"SelectorExpr", "Ident", "Ellipsis", "StarExpr", "FuncType",
                      "ArrayType", "MapType", "InterfaceType", "ChanType"}

\* C3: ParseType fed a non-empty interface node, or any node outside the
\* supported grammar, aborts; it never returns a Type for such a node.
C3_UnsupportedAborts ==
    Called /\ (\E n \in SubNodes(node) : Unsupported(n)) => pc = "panicked"

\* the canonical text of an expression built from the constructors of C4
RECURSIVE SrcText(_)
SrcText(n) ==
    CASE n.node = "Ident" -> n.Name
      [] n.node = "StarExpr" -> "*" \o SrcText(n.X)
      [] n.node = "ArrayType" -> "[]" \o SrcText(n.Elt)
      [] n.node = "Ellipsis" -> "..." \o SrcText(n.Elt)
      [] n.node = "MapType" ->
            "map[" \o SrcText(n.Key) \o "]" \o SrcText(n.Value)
      [] n.node = "ChanType" ->
            (CASE n.Dir = SEND + RECV -> "chan "
               [] n.Dir = RECV -> "<-chan "
               [] n.Dir = SEND -> "chan<- ") \o SrcText(n.Value)
      [] n.node = "InterfaceType" -> "interface{}"

\* the expression is built from pointer, slice, variadic, map, channel and
\* empty interface over identifiers that are not local types
InKindCoverage(n) ==
    \A x \in SubNodes(n) :
        \/ x.node = "Ident" /\ x.Name \notin typesMap
        \/ x.node \in {"StarExpr", "Ellipsis", "MapType", "ChanType"}
        \/ x.node = "ArrayType" /\ x.Len.node = "nil"
        \/ x.node = "InterfaceType" /\ x.NumMethods = 0

\* C4: for every expression built from *T, []T, ...T, map[K]V, chan T,
\* <-chan T, chan<- T and interface{} over non-local identifiers, rendering
\* the result of ParseType reproduces the expression's canonical text, the
\* channel direction preserved.
C4_KindCoverage ==
    Called /\ InKindCoverage(node) =>
        /\ pc # "panicked"
        /\ pc = "rendered" => out = Ok(SrcText(node))

C4_Witness ==
    /\ pc = "rendered" /\ origin = "ParseType"
    /\ node = MapType(Ident("Foo"), ChanType(RECV, Ident("Bar")))
    /\ typesMap = {}
    /\ out = Ok("map[Foo]<-chan Bar")

\* C5: a qualified reference X.Y parses to a Selector with Name = Y and
\* Package = the name of X, whatever the local types and the destination
\* package (also when X or Y is a local type), and renders as X.Y.
C5_Selector ==
    /\ Returned =>
          {<<s.Package, s.Name>> : s \in {x \in SubTypes(t) : x.Kind = TypeKindSelector}}
          = {<<n.X.Name, n.Sel.Name>> :
                n \in {x \in SubNodes(node) : x.node = "SelectorExpr"}}
    /\ Called /\ node.node = "SelectorExpr" =>
          /\ pc # "panicked"
          /\ t = [ZeroType EXCEPT !.Kind = TypeKindSelector,
                                  !.Name = node.Sel.Name, !.Package = node.X.Name]
          /\ pc = "rendered" => out = Ok(node.X.Name \o "." \o node.Sel.Name)

C5_Witness ==
    /\ pc = "rendered" /\ origin = "ParseType"
    /\ node = SelectorExpr(Ident("Foo"), "Bar")
    /\ typesMap = {"Foo", "Bar"}
    /\ out = Ok("Foo.Bar")

\* C7: every Type of a tree returned by ParseType has a non-nil Child when
\* its Kind is Pointer, Array, Variadic or Channel and non-nil mapKeyType and
\* mapValType when its Kind is Map; rendering the tree never reads through a
\* nil child.
C7_ChildrenPresent ==
    Returned =>
        /\ \A s \in SubTypes(t) :
              /\ s.Kind \in {TypeKindStar, TypeKindArray, TypeKindEllipsis,
                             TypeKindChan} => ~IsNil(s.Child)
              /\ s.Kind = TypeKindMap =>
                    ~IsNil(s.mapKeyType) /\ ~IsNil(s.mapValType)
        /\ pc = "rendered" => ~out.panic

C7_Witness ==
    /\ pc = "rendered" /\ origin = "ParseType"
    /\ node = MapType(Ident("Foo"), StarExpr(Ident("Bar")))
    /\ t.Kind = TypeKindMap /\ t.mapValType.Kind = TypeKindStar
    /\ t.mapValType.Child.Kind = TypeKindIdent
    /\ ~out.panic

\* C8: a Type whose Kind is none of the nine recognised kinds (the zero Kind
\* included) renders as the empty string without failing, whatever its other
\* fields hold; no Type returned by ParseType has such a Kind.
C8_UnknownKind ==
    /\ pc = "rendered" /\ t.Kind \notin TypeKinds => out = Ok("")
    /\ Returned => \A s \in SubTypes(t) : s.Kind \in TypeKinds

C8_Witness ==
    /\ pc = "rendered" /\ origin = "literal"
    /\ t.Kind = "" /\ t.Name = "Foo" /\ IsNil(t.Child)
    /\ Len(t.Results) = 1
    /\ out = Ok("")

\* C10: the array length is not retained: [N]T parses to exactly the Type
\* []T parses to, of Kind Array with Child = parse(T), and renders as
\* "[]" + render(T), for every N and T.
C10_ArrayLengthDropped ==
    Called /\ node.node = "ArrayType" =>
        /\ t = ParseType(ArrayType(NilNode, node.Elt), typesMap, sourcePackageName)
        /\ pc # "panicked" =>
              /\ t.Kind = TypeKindArray
              /\ t.Child = ParseType(node.Elt, typesMap, sourcePackageName)
        /\ pc = "rendered" => out.s = "[]" \o String(t.Child).s

C10_Witness ==
    /\ pc = "rendered" /\ origin = "ParseType"
    /\ node = ArrayType(BasicLit(1), StarExpr(Ident("Foo")))
    /\ typesMap = {}
    /\ out = Ok("[]*Foo")

----------------------------------------------------------------------------
(* formatPackage applied to arbitrary arguments *)

ParseIdle ==
    /\ node = NilNode /\ t = Nil /\ origin = "none" /\ out = Ok("")

InitFormat ==
    /\ typesMap \in SUBSET TypeNames
    /\ sourcePackageName \in PackageNames
    /\ fpPkg \in {"", "pkg", "out"}
    /\ fpTypeName \in TypeNames \union {"int"}
    /\ fpOut = ""
    /\ pc = "fpInput"
    /\ ParseIdle
    /\ MainIdle

\* fpOut := formatPackage(fpPkg, fpTypeName)
CallFormatPackage ==
    /\ pc = "fpInput"
    /\ fpOut' = formatPackage(fpPkg, fpTypeName, typesMap, sourcePackageName)
    /\ pc' = "fpDone"
    /\ UNCHANGED <<node, typesMap, sourcePackageName, t, origin, out,
                   fpPkg, fpTypeName>>
    /\ UNCHANGED mainVars

NextFormat == CallFormatPackage

SpecFormat == InitFormat /\ [][NextFormat]_vars

----------------------------------------------------------------------------
(* main and findSourceFiles: main.go lines 36-96 *)

\* strings.HasSuffix
HasSuffix(str, suffix) ==
    /\ Len(str) >= Len(suffix)
    /\ SubSeq(str, Len(str) - Len(suffix) + 1, Len(str)) = suffix

\* the loop of findSourceFiles over the directory's entries: the regular
\* files named *.go but not *_test.go, joined to the directory, in order
RECURSIVE findSourceFiles(_, _)
findSourceFiles(directory, es) ==
    IF es = <<>> THEN <<>>
    ELSE LET e == Head(es)
             rest == findSourceFiles(directory, Tail(es))
         IN  IF e.IsDir THEN rest
             ELSE IF HasSuffix(e.Name, "_test.go") \/ ~HasSuffix(e.Name, ".go")
                     THEN rest
             ELSE <<directory \o "/" \o e.Name>> \o rest

\* what the module's directory may hold, as os.ReadDir lists it (by name)
CandidateEntries ==
    <<[Name |-> "a.go", IsDir |-> FALSE],
      [Name |-> "a_test.go", IsDir |-> FALSE],
      [Name |-> "doc.md", IsDir |-> FALSE],
      [Name |-> "sub.go", IsDir |-> TRUE]>>

\* the entries of CandidateEntries at the positions in keep, in order
RECURSIVE Pick(_, _)
Pick(i, keep) ==
    IF i > Len(CandidateEntries) THEN <<>>
    ELSE (IF i \in keep THEN <<CandidateEntries[i]>> ELSE <<>>) \o Pick(i + 1, keep)

InitMain ==
    /\ mainPc = "ParseArgs"
    /\ args \in {"ok", "help", "bad"}
    /\ entries \in {Pick(1, keep) : keep \in SUBSET (1..Len(CandidateEntries))}
    /\ files = <<>>
    /\ executed = <<>>
    /\ exitCode = -1
    /\ outputFile = FALSE
    /\ typesMap = {} /\ sourcePackageName = "out" /\ pc = "idle"
    /\ ParseIdle
    /\ FormatIdle

\* the record of a step main has executed
Ran(step, err) == [step |-> step, err |-> err]

\* the process ends with the given status
Exit(code) == mainPc' = "exited" /\ exitCode' = code

\* lines 39-45: flags.ParseArgs; help written: return; other error: exit 1
StepParseArgs ==
    /\ mainPc = "ParseArgs"
    /\ executed' = Append(executed, Ran("ParseArgs", args # "ok"))
    /\ IF args = "help" THEN Exit(0)
       ELSE IF args = "bad" THEN Exit(1)
       ELSE mainPc' = "Parse" /\ exitCode' = exitCode
    /\ UNCHANGED <<args, entries, files, outputFile>>
    /\ UNCHANGED parseVars /\ UNCHANGED formatVars

\* lines 47-50: gomodule.Parse; on error log.Fatal
StepModuleParse ==
    /\ mainPc = "Parse"
    /\ \E err \in BOOLEAN :
          /\ executed' = Append(executed, Ran("Parse", err))
          /\ IF err THEN Exit(1)
             ELSE mainPc' = "findSourceFiles" /\ exitCode' = exitCode
    /\ UNCHANGED <<args, entries, files, outputFile>>
    /\ UNCHANGED parseVars /\ UNCHANGED formatVars

\* lines 52-55 and 74-96: findSourceFiles; os.ReadDir may fail; on error
\* log.Fatal
StepFindSourceFiles ==
    /\ mainPc = "findSourceFiles"
    /\ \E err \in BOOLEAN :
          /\ executed' = Append(executed, Ran("findSourceFiles", err))
          /\ IF err THEN Exit(1) /\ files' = files
             ELSE /\ mainPc' = "Generate" /\ exitCode' = exitCode
                  /\ files' = findSourceFiles("mod", entries)
    /\ UNCHANGED <<args, entries, outputFile>>
    /\ UNCHANGED parseVars /\ UNCHANGED formatVars

\* the Generate step going on after an error
StepGenerateIgnoresErr ==
    /\ mainPc = "Generate"
    /\ \E result \in {"ok", "err", "panic"} :
          /\ executed' = Append(executed, Ran("Generate", result # "ok"))
          /\ IF result = "panic" THEN Exit(2)
             ELSE mainPc' = "MkdirAll" /\ exitCode' = exitCode
    /\ UNCHANGED <<args, entries, files, outputFile>>
    /\ UNCHANGED parseVars /\ UNCHANGED formatVars

\* lines 57-65: generator.Generate; on error log.Fatal; a panic raised
\* below it (ParseType's) ends the process with status 2
StepGenerate ==
    /\ mainPc = "Generate"
    /\ \E result \in {"ok", "err", "panic"} :
          /\ executed' = Append(executed, Ran("Generate", result # "ok"))
          /\ IF result = "err" THEN Exit(1)
             ELSE IF result = "panic" THEN Exit(2)
             ELSE mainPc' = "MkdirAll" /\ exitCode' = exitCode
    /\ UNCHANGED <<args, entries, files, outputFile>>
    /\ UNCHANGED parseVars /\ UNCHANGED formatVars

\* lines 66-68: os.MkdirAll of the output file's directory; on error log.Fatal
StepMkdirAll ==
    /\ mainPc = "MkdirAll"
    /\ \E err \in BOOLEAN :
          /\ executed' = Append(executed, Ran("MkdirAll", err))
          /\ IF err THEN Exit(1)
             ELSE mainPc' = "WriteFile" /\ exitCode' = exitCode
    /\ UNCHANGED <<args, entries, files, outputFile>>
    /\ UNCHANGED parseVars /\ UNCHANGED formatVars

\* lines 69-72: os.WriteFile of the generated code; on error log.Fatal;
\* otherwise main returns
StepWriteFile ==
    /\ mainPc = "WriteFile"
    /\ \E err \in BOOLEAN :
          /\ executed' = Append(executed, Ran("WriteFile", err))
          /\ outputFile' = ~err
          /\ IF err THEN Exit(1) ELSE Exit(0)
    /\ UNCHANGED <<args, entries, files>>
    /\ UNCHANGED parseVars /\ UNCHANGED formatVars

NextMain ==
    \/ StepParseArgs
    \/ StepModuleParse
    \/ StepFindSourceFiles
    \/ StepGenerate
    \/ StepMkdirAll
    \/ StepWriteFile

SpecMain == InitMain /\ [][NextMain]_vars

\* the steps of a generation run, in order
StepOrder ==
    <<"ParseArgs", "Parse", "findSourceFiles", "Generate", "MkdirAll", "WriteFile">>

\* the i-th step has been executed and succeeded
Succeeded(i) == Len(executed) >= i /\ ~executed[i].err

====
